---- MODULE Spec2Model ----
(***************************************************************************)
(* Document-sharing feed: the entity store (MemStorage, DatabaseStorage),   *)
(* the feed, post, like and comment request handlers that drive it, the    *)
(* uploads directory and the client's CreateDocumentDialog.                *)
(*                                                                         *)
(* impl selects the store at startup.  MemStorage methods contain no await *)
(* and run as one step each.  DatabaseStorage methods and the route         *)
(* handlers are split at every await: each SQL statement is one step.       *)
(***************************************************************************)
EXTENDS Integers, Sequences, FiniteSets, Bags, TLC

\* ---------------------------------------------------------------- bounds
MaxPosts == 3          \* posts ever created (2 seeded + createPost)
MaxComments == 2       \* comment ids ever drawn
MaxCalls == 4          \* store calls / requests ever started
MaxTicks == 1          \* ticks the clock may advance between calls
NumSlots == 2          \* requests in flight at once
MaxUsers == 6          \* users ever created (3 seeded + createUser)
MaxUnits == 2          \* multiples of each time unit a post may have aged
MaxLiveCalls == 3      \* requests ever started where every one must be answered

\* ------------------------------------------------------ program constants
SeedLikes1 == 24
SeedComments1 == 8
SeedLikes2 == 42
SeedComments2 == 16
SeedAge1 == 7200000
SeedAge2 == 86400000

\* Times are counted in ticks of 500 ms, so that ages of several months fit
\* 32-bit integers: a Date of m milliseconds is m \div MsPerTick,
\* and Math.floor(ms / 1000) is ticks \div TicksPerSecond.
MsPerTick == 500
TicksPerSecond == 1000 \div MsPerTick

\* ------------------------------------------------------------ input sets
T0 == SeedAge2 \div MsPerTick        \* clock value at startup
NoUser == 0                        \* req.user absent (unauthenticated)
GhostUser == 3 + 1                 \* a user id that names no user
Actors == {1, 2, NoUser}           \* req.user.id of a like request
CommentActors == {1, NoUser}       \* req.user.id of a comment request
UserIdArgs == {1, 2, GhostUser}    \* userId argument of a direct likePost call
AuthorIdArgs == {1, GhostUser}     \* userId argument of createPost / createComment
PostIdArgs == {1, 3}               \* a seeded post and the first id createPost hands out
NULL == "<null>"
\* createUser arguments: a seeded username and two fresh ones; role given or ""
Usernames == {"alex.johnson", "nina.patel", "omar.haddad"}
Roles == {"", "Engineer"}
\* req.body fields of POST /api/posts as <<typeof, characters>>
TitleInputs == {<<"undefined", <<>>>>, <<"number", <<"7">>>>, <<"string", <<>>>>,
                <<"string", <<" ">>>>, <<"string", <<"Q", "3", " ">>>>}
DescriptionInputs == {<<"undefined", <<>>>>, <<"string", <<" ", "d">>>>}
\* req.file of POST /api/posts as <<typeof, characters of originalname>>: no
\* file, or a PDF that passes the upload filter
FileInputs == {<<"undefined", <<>>>>, <<"file", <<"Q", "3", ".", "p", "d", "f">>>>}
\* Math.random().toString(36).substring(2, 10)
RandomStrings == {"k3x9q2ab", "07fzc1mw"}
\* req.user.id of a feed request
Viewers == {1, NoUser}
\* the user whose like toggles run next to the feed
FeedLikers == {1}
\* seconds in a second, minute, hour, day and 30-day month
TimeUnits == {1, 60, 3600, 86400, 2592000}
\* ages in whole seconds at and just below the multiples of each unit
ElapsedSeconds ==
    {k * u + e : k \in 1..MaxUnits, u \in TimeUnits, e \in {-1, 0}} \cup {3661}
\* title and fileName arguments of a direct createPost call
TitleArgs == {"Roadmap", ""}
FileNameArgs == {"", NULL, "Q3.pdf"}
\* request bodies of POST /api/posts/:id/comments, as character sequences
Contents == {<<"o", "k", " ">>, <<" ">>, <<>>}

VARIABLES impl, now, users, posts, comments, postLikesMap, postLikes,
          userCurrentId, postCurrentId, commentCurrentId, calls, reqs,
          uploads, dialog

store == <<users, posts, comments, postLikesMap, postLikes>>
vars == <<impl, now, users, posts, comments, postLikesMap, postLikes,
          userCurrentId, postCurrentId, commentCurrentId, calls, reqs,
          uploads, dialog>>

\* ------------------------------------------------------------- helpers
Max(a, b) == IF a > b THEN a ELSE b

\* x || null on an optional string
OrNull(x) == IF x = "" \/ x = NULL THEN NULL ELSE x

\* x || 0 on a counter
OrZero(x) == IF x = 0 THEN 0 ELSE x

IsSpace(ch) == ch = " "

\* String.prototype.trim
RECURSIVE TrimStart(_)
TrimStart(str) ==
    IF str # <<>> /\ IsSpace(Head(str)) THEN TrimStart(Tail(str)) ELSE str

RECURSIVE TrimEnd(_)
TrimEnd(str) ==
    IF str # <<>> /\ IsSpace(str[Len(str)])
    THEN TrimEnd(SubSeq(str, 1, Len(str) - 1)) ELSE str

Trim(str) == TrimEnd(TrimStart(str))

\* the string made of the characters of str
RECURSIVE StringOf(_)
StringOf(str) == IF str = <<>> THEN "" ELSE Head(str) \o StringOf(Tail(str))

\* the characters /[a-zA-Z0-9.]/ matches
AlnumDot ==
    {"a", "b", "c", "d", "e", "f", "g", "h", "i", "j", "k", "l", "m", "n", "o",
     "p", "q", "r", "s", "t", "u", "v", "w", "x", "y", "z",
     "A", "B", "C", "D", "E", "F", "G", "H", "I", "J", "K", "L", "M", "N", "O",
     "P", "Q", "R", "S", "T", "U", "V", "W", "X", "Y", "Z",
     "0", "1", "2", "3", "4", "5", "6", "7", "8", "9", "."}

\* originalname.replace(/[^a-zA-Z0-9.]/g, '_')
CleanFileName(name) ==
    [i \in 1..Len(name) |-> IF name[i] \in AlnumDot THEN name[i] ELSE "_"]

\* path.extname: from the last '.' on, or nothing when there is no '.' after
\* the first character
ExtName(name) ==
    LET dots == {i \in 2..Len(name) : name[i] = "."}
    IN IF dots = {} THEN <<>>
       ELSE SubSeq(name, CHOOSE i \in dots : \A j \in dots : j <= i, Len(name))

\* the filename callback of multer.diskStorage, timestamp in milliseconds
StoredFileName(timestamp, randomString, originalname) ==
    ToString(timestamp) \o "-" \o randomString
       \o StringOf(ExtName(CleanFileName(originalname)))

\* a request handler before its first statement
NewReq == [pc |-> "start", kind |-> "none", postId |-> 0, userId |-> NoUser,
             content |-> <<>>, routeHasLiked |-> FALSE, postResult |-> <<>>,
             hasLiked |-> FALSE, newComment |-> <<>>, status |-> 0,
             body |-> <<>>, title |-> "", description |-> "",
             fileName |-> NULL, createdAt |-> 0, threw |-> FALSE,
             allPosts |-> <<>>, feed |-> <<>>, pending |-> {}, client |-> ""]

\* ------------------------------------------------------------- seeding
SeedUsers ==
    (1 :> [id |-> 1, username |-> "alex.johnson", password |-> "password123",
           fullName |-> "Alex Johnson", role |-> "Product Manager"])
 @@ (2 :> [id |-> 2, username |-> "emma.thompson", password |-> "password123",
           fullName |-> "Emma Thompson", role |-> "Marketing Manager"])
 @@ (3 :> [id |-> 3, username |-> "marcus.wilson", password |-> "password123",
           fullName |-> "Marcus Wilson", role |-> "Product Lead"])

SeedPosts ==
    (1 :> [id |-> 1, title |-> "Q2 2023 Marketing Strategy Document",
           description |-> "marketing strategy for Q2 2023",
           fileName |-> "Q2_Marketing_Strategy.pdf", userId |-> 2,
           createdAt |-> T0 - SeedAge1 \div MsPerTick,
           likes |-> SeedLikes1, comments |-> SeedComments1])
 @@ (2 :> [id |-> 2, title |-> "Product Roadmap 2023-2024",
           description |-> "product roadmap for the next 18 months",
           fileName |-> "Product_Roadmap_2023_2024.pdf", userId |-> 3,
           createdAt |-> T0 - SeedAge2 \div MsPerTick,
           likes |-> SeedLikes2, comments |-> SeedComments2])

\* the counters a post started with: seeded values, or 0 from createPost
InitLikes(p) == IF p \in DOMAIN SeedPosts THEN SeedPosts[p].likes ELSE 0
InitComments(p) == IF p \in DOMAIN SeedPosts THEN SeedPosts[p].comments ELSE 0

Init ==
    /\ impl \in {"mem", "db"}
    /\ now = T0
    /\ users = SeedUsers
    /\ posts = SeedPosts
    /\ comments = <<>>
    /\ postLikesMap = <<>>
    /\ postLikes = EmptyBag
    /\ userCurrentId = 4
    /\ postCurrentId = 3
    /\ commentCurrentId = 1
    /\ calls = 0
    /\ reqs = EmptyBag
    /\ uploads = {}
    /\ dialog = [open |-> FALSE, isSubmitting |-> FALSE, toast |-> ""]

\* new Date(): the clock never runs backwards; a read returns the last value
\* read or a later one
ClockReads == now..(T0 + MaxTicks)

\* the clock read long after startup: a whole number of seconds later, or
\* half a second more; once read late, the clock stays where it is
LateClockReads ==
    IF now > T0 + MaxTicks THEN {now}
    ELSE {T0 + TicksPerSecond * d + h : d \in ElapsedSeconds,
                                        h \in 0..(TicksPerSecond - 1)}

\* getTimeAgo, with the clock value it reads passed in
GetTimeAgo_PluralOnly(nowTicks, dateTicks) ==
    LET diffInSeconds == (nowTicks - dateTicks) \div TicksPerSecond
        diffInMinutes == diffInSeconds \div 60
        diffInHours == diffInMinutes \div 60
        diffInDays == diffInHours \div 24
        diffInMonths == diffInDays \div 30
    IN IF diffInSeconds < 60 THEN ToString(diffInSeconds) \o " seconds ago"
       ELSE IF diffInMinutes < 60 THEN ToString(diffInMinutes) \o " minutes ago"
       ELSE IF diffInHours < 24 THEN ToString(diffInHours) \o " hours ago"
       ELSE IF diffInDays < 30 THEN ToString(diffInDays) \o " days ago"
       ELSE ToString(diffInMonths) \o " months ago"

TimeAgoParts_DayOfHours(nowTicks, dateTicks) ==
    LET diffInSeconds == (nowTicks - dateTicks) \div TicksPerSecond
        diffInMinutes == diffInSeconds \div 60
        diffInHours == diffInMinutes \div 60
        diffInDays == diffInHours \div 24
        diffInMonths == diffInDays \div 30
    IN IF diffInSeconds < 60 THEN [n |-> diffInSeconds, unit |-> "second"]
       ELSE IF diffInMinutes < 60 THEN [n |-> diffInMinutes, unit |-> "minute"]
       ELSE IF diffInHours <= 24 THEN [n |-> diffInHours, unit |-> "hour"]
       ELSE IF diffInDays < 30 THEN [n |-> diffInDays, unit |-> "day"]
       ELSE [n |-> diffInMonths, unit |-> "month"]

\* the number getTimeAgo prints and the unit of its bucket
TimeAgoParts(nowTicks, dateTicks) ==
    LET diffInSeconds == (nowTicks - dateTicks) \div TicksPerSecond
        diffInMinutes == diffInSeconds \div 60
        diffInHours == diffInMinutes \div 60
        diffInDays == diffInHours \div 24
        diffInMonths == diffInDays \div 30
    IN IF diffInSeconds < 60 THEN [n |-> diffInSeconds, unit |-> "second"]
       ELSE IF diffInMinutes < 60 THEN [n |-> diffInMinutes, unit |-> "minute"]
       ELSE IF diffInHours < 24 THEN [n |-> diffInHours, unit |-> "hour"]
       ELSE IF diffInDays < 30 THEN [n |-> diffInDays, unit |-> "day"]
       ELSE [n |-> diffInMonths, unit |-> "month"]

\* the text: seconds always plural, the other units singular when N is 1
GetTimeAgo(nowTicks, dateTicks) ==
    LET parts == TimeAgoParts(nowTicks, dateTicks)
    IN IF parts.unit = "second" THEN ToString(parts.n) \o " seconds ago"
       ELSE ToString(parts.n) \o " "
            \o (IF parts.n = 1 THEN parts.unit ELSE parts.unit \o "s") \o " ago"

\* ================================================================ MemStorage
\* key = `${postId}-${userId}`
LikeKey(id, userId) == ToString(id) \o "-" \o ToString(userId)

MemHasUserLikedPost(plm, postId, userId) == LikeKey(postId, userId) \in DOMAIN plm

MemUnlikeValue(currentLikes) == Max(0, currentLikes - 1)

MemLikeValue_Same(currentLikes) == currentLikes

MemLikeValue(currentLikes) == currentLikes + 1

\* likePost as a function of the two maps it touches; found = FALSE is the
\* undefined return
MemLikePostOp(ps, plm, id, userId) ==
    IF id \notin DOMAIN ps
    THEN [found |-> FALSE, posts |-> ps, postLikesMap |-> plm]
    ELSE LET post == ps[id]
             key == LikeKey(id, userId)
         IN IF key \in DOMAIN plm
            THEN [found |-> TRUE,
                  posts |-> [ps EXCEPT ![id].likes = MemUnlikeValue(OrZero(post.likes))],
                  postLikesMap |-> [k \in DOMAIN plm \ {key} |-> plm[k]]]
            ELSE [found |-> TRUE,
                  posts |-> [ps EXCEPT ![id].likes = MemLikeValue(OrZero(post.likes))],
                  postLikesMap |-> (key :> TRUE) @@ plm]

MemLikePost(id, userId) ==
    /\ impl = "mem"
    /\ calls < MaxCalls
    /\ calls' = calls + 1
    /\ LET res == MemLikePostOp(posts, postLikesMap, id, userId)
       IN /\ posts' = res.posts
          /\ postLikesMap' = res.postLikesMap
    /\ UNCHANGED <<impl, dialog, uploads, userCurrentId, now, users, comments, postLikes,
                   postCurrentId,
                   commentCurrentId, reqs>>

NewPost_LikesOne(id, title, description, fileName, userId, createdAt) ==
    [id |-> id, title |-> title, description |-> description,
     fileName |-> OrNull(fileName), userId |-> userId,
     createdAt |-> createdAt,
     likes |-> 1, comments |-> 0]

NewPost(id, title, description, fileName, userId, createdAt) ==
    [id |-> id, title |-> title, description |-> description,
     fileName |-> OrNull(fileName), userId |-> userId,
     createdAt |-> createdAt,
     likes |-> 0, comments |-> 0]

MemCreatePost(title, description, fileName, userId) ==
    /\ impl = "mem"
    /\ calls < MaxCalls
    /\ calls' = calls + 1
    /\ postCurrentId <= MaxPosts
    /\ postCurrentId' = postCurrentId + 1
    /\ \E t \in ClockReads :
          /\ now' = t
          /\ posts' = (postCurrentId :> NewPost(postCurrentId, title,
                                                description, fileName, userId, t))
                      @@ posts
    /\ UNCHANGED <<impl, dialog, uploads, userCurrentId, users, comments, postLikesMap,
                   postLikes,
                   commentCurrentId, reqs>>

NewComment(id, content, postId, userId, createdAt) ==
    [id |-> id, content |-> content, postId |-> postId, userId |-> userId,
     createdAt |-> createdAt]

MemCreateComment(content, postId, userId) ==
    /\ impl = "mem"
    /\ calls < MaxCalls
    /\ calls' = calls + 1
    /\ commentCurrentId <= MaxComments
    /\ commentCurrentId' = commentCurrentId + 1
    /\ \E t \in ClockReads :
          /\ now' = t
          /\ comments' = (commentCurrentId :>
                           NewComment(commentCurrentId, content, postId, userId, t))
                         @@ comments
    /\ posts' = IF postId \in DOMAIN posts
                THEN [posts EXCEPT ![postId].comments =
                                      OrZero(posts[postId].comments) + 1]
                ELSE posts
    /\ UNCHANGED <<impl, dialog, uploads, userCurrentId, users, postLikesMap, postLikes,
                   postCurrentId, reqs>>

\* getCommentsByPostId: filter, stable sort by createdAt descending, resolve
\* each author (a missing author throws)
RECURSIVE InsertDesc(_, _)
InsertDesc(sorted, c) ==
    IF sorted = <<>> THEN <<c>>
    ELSE IF Head(sorted).createdAt >= c.createdAt
         THEN <<Head(sorted)>> \o InsertDesc(Tail(sorted), c)
         ELSE <<c>> \o sorted

RECURSIVE SortDesc(_)
SortDesc(list) ==
    IF list = <<>> THEN <<>>
    ELSE InsertDesc(SortDesc(SubSeq(list, 1, Len(list) - 1)), list[Len(list)])

\* Array.from(map.values()).filter(...): insertion order is id order
RECURSIVE ValuesOfPost(_, _, _)
ValuesOfPost(cs, postId, n) ==
    IF n = 0 THEN <<>>
    ELSE ValuesOfPost(cs, postId, n - 1) \o
         (IF n \in DOMAIN cs /\ cs[n].postId = postId THEN <<cs[n]>> ELSE <<>>)

WithAuthor(us, c) ==
    [id |-> c.id, content |-> c.content, postId |-> c.postId,
     createdAt |-> c.createdAt, author |-> us[c.userId]]

ResolveAuthors(us, sorted) ==
    IF \E i \in 1..Len(sorted) : sorted[i].userId \notin DOMAIN us
    THEN [ok |-> FALSE, list |-> <<>>]
    ELSE [ok |-> TRUE,
          list |-> [i \in 1..Len(sorted) |-> WithAuthor(us, sorted[i])]]

MemGetCommentsByPostId(cs, us, postId) ==
    ResolveAuthors(us, SortDesc(ValuesOfPost(cs, postId, Len(cs))))

\* ------------------------------------------------------------ getAllPosts
\* Array.from(this.posts.values()): insertion order is id order
RECURSIVE ValuesOfPosts(_, _)
ValuesOfPosts(ps, n) ==
    IF n = 0 THEN <<>>
    ELSE ValuesOfPosts(ps, n - 1) \o (IF n \in DOMAIN ps THEN <<ps[n]>> ELSE <<>>)

PostsNewestFirst_Unsorted(list) == list

\* .sort((a, b) => b.createdAt.getTime() - a.createdAt.getTime())
PostsNewestFirst(list) == SortDesc(list)

PostWithAuthor(us, post, t) ==
    [id |-> post.id, title |-> post.title, description |-> post.description,
     fileName |-> post.fileName, userId |-> post.userId,
     createdAt |-> post.createdAt, likes |-> post.likes,
     comments |-> post.comments,
     author |-> us[post.userId], timeAgo |-> GetTimeAgo(t, post.createdAt)]

WithAuthors_DropMissing(us, list, t) ==
    LET F[i \in 0..Len(list)] ==
           IF i = 0 THEN <<>>
           ELSE IF list[i].userId \in DOMAIN us THEN Append(F[i - 1], list[i])
           ELSE F[i - 1]
        kept == F[Len(list)]
    IN [ok |-> TRUE,
        list |-> [i \in 1..Len(kept) |-> PostWithAuthor(us, kept[i], t)]]

\* the map over the posts: one missing author throws for the whole list
WithAuthors(us, list, t) ==
    IF \E i \in 1..Len(list) : list[i].userId \notin DOMAIN us
    THEN [ok |-> FALSE, list |-> <<>>]
    ELSE [ok |-> TRUE,
          list |-> [i \in 1..Len(list) |-> PostWithAuthor(us, list[i], t)]]

\* ========================================================== DatabaseStorage
\* One operator per SQL statement.  postLikes is a bag of rows so that a
\* duplicate row would be visible; the primary key and the foreign keys of
\* the schema are checked by the insert.  The createdAt column of a like row
\* is written and never read, and is left out of the row.
LikeRowsOf(pl, postId, userId) ==
    {row \in BagToSet(pl) : row.postId = postId /\ row.userId = userId}

DbHasUserLikedPost_AnyPost(pl, postId, userId) ==
    \E row \in BagToSet(pl) : row.userId = userId

DbHasUserLikedPost(pl, postId, userId) == LikeRowsOf(pl, postId, userId) # {}

DbSelectPost(ps, id) == IF id \in DOMAIN ps THEN <<ps[id]>> ELSE <<>>

LikePkOk_NoKey(pl, postId, userId) == TRUE

\* primaryKey(postId, userId)
LikePkOk(pl, postId, userId) == LikeRowsOf(pl, postId, userId) = {}

\* references(posts.id), references(users.id)
LikeFkOk(ps, us, postId, userId) == postId \in DOMAIN ps /\ userId \in DOMAIN us

DbDeleteLike(pl, postId, userId) ==
    LET keep == BagToSet(pl) \ LikeRowsOf(pl, postId, userId)
    IN [row \in keep |-> pl[row]]

DbInsertLike(pl, postId, userId) ==
    pl (+) SetToBag({[postId |-> postId, userId |-> userId]})

DbUnlikeValue_NoClamp(currentLikes) == currentLikes - 1

DbUnlikeValue(currentLikes) == Max(0, currentLikes - 1)

DbLikeValue(currentLikes) == currentLikes + 1

PostMissing_Never(postResult) == FALSE

\* !post after postResult[0]
PostMissing(postResult) == Len(postResult) = 0

\* references(posts.id), references(users.id) on comments
CommentFkOk(ps, us, postId, userId) == postId \in DOMAIN ps /\ userId \in DOMAIN us

TxInsertVisible_Autocommit(cs, row) == (row.id :> row) @@ cs

\* the committed comments table after the insert inside db.transaction: the
\* row stays private to the transaction until commit
TxInsertVisible(cs, row) == cs

\* the requests being handled and the response the dialog still waits for;
\* the other responses stay until the next arrival
InFlight ==
    [q \in {x \in BagToSet(reqs) :
               x.pc # "done" \/ (x.client = "dialog" /\ dialog.isSubmitting)}
       |-> reqs[q]]

Move(old, new) == (reqs (-) SetToBag({old})) (+) SetToBag({new})

RowLocked_HeldAfterCommit(postId) ==
    \E q \in BagToSet(reqs) :
       q.kind = "comment" /\ q.postId = postId /\ q.pc \in {"cm_commit", "cm_list", "done"}

\* an UPDATE of a posts row waits while an open transaction holds its lock
RowLocked(postId) ==
    \E q \in BagToSet(reqs) : q.pc = "cm_commit" /\ q.postId = postId

\* the handler returns: its locals are gone, the response stays
Respond(q, status, body) ==
    [NewReq EXCEPT !.pc = "done", !.kind = q.kind, !.postId = q.postId,
                   !.userId = q.userId, !.status = status, !.body = body,
                   !.client = q.client]

Unauthenticated_Never(actor) == FALSE

\* !req.isAuthenticated() || !req.user
Unauthenticated(actor) == actor = NoUser

\* ------------------------------------------- POST /api/posts/:id/like
LikeStart(postId, actor) ==
    /\ impl = "db"
    /\ BagCardinality(InFlight) < NumSlots
    /\ calls < MaxCalls
    /\ calls' = calls + 1
    /\ LET q == [NewReq EXCEPT !.kind = "like", !.postId = postId,
                               !.userId = actor]
       IN reqs' = InFlight (+) SetToBag({
                     IF Unauthenticated(actor) THEN Respond(q, 401, <<>>)
                     ELSE [q EXCEPT !.pc = "like_has"]})
    /\ UNCHANGED <<impl, dialog, uploads, userCurrentId, now, users, posts, comments,
                   postLikesMap, postLikes,
                   postCurrentId, commentCurrentId>>

LikeRouteHas(q) ==
    /\ q.pc = "like_has"
    /\ reqs' = Move(q, [q EXCEPT !.routeHasLiked =
                                    DbHasUserLikedPost(postLikes, q.postId, q.userId),
                                 !.pc = "lp_select"])
    /\ UNCHANGED <<impl, dialog, uploads, userCurrentId, now, users, posts, comments,
                   postLikesMap, postLikes,
                   postCurrentId, commentCurrentId, calls>>

LpSelect(q) ==
    /\ q.pc = "lp_select"
    /\ LET postResult == DbSelectPost(posts, q.postId)
       IN reqs' = Move(q, IF PostMissing(postResult)
                          THEN Respond(q, 404, <<>>)
                          ELSE [q EXCEPT !.postResult = postResult,
                                         !.pc = "lp_has"])
    /\ UNCHANGED <<impl, dialog, uploads, userCurrentId, now, users, posts, comments,
                   postLikesMap, postLikes,
                   postCurrentId, commentCurrentId, calls>>

LpHas(q) ==
    /\ q.pc = "lp_has"
    /\ LET hasLiked == DbHasUserLikedPost(postLikes, q.postId, q.userId)
       IN reqs' = Move(q, [q EXCEPT !.hasLiked = hasLiked,
                                    !.pc = IF hasLiked THEN "lp_delete"
                                           ELSE "lp_insert"])
    /\ UNCHANGED <<impl, dialog, uploads, userCurrentId, now, users, posts, comments,
                   postLikesMap, postLikes,
                   postCurrentId, commentCurrentId, calls>>

LpDelete(q) ==
    /\ q.pc = "lp_delete"
    /\ postLikes' = DbDeleteLike(postLikes, q.postId, q.userId)
    /\ reqs' = Move(q, [q EXCEPT !.pc = "lp_dec"])
    /\ UNCHANGED <<impl, dialog, uploads, userCurrentId, now, users, posts, comments,
                   postLikesMap,
                   postCurrentId, commentCurrentId, calls>>

LpInsert(q) ==
    /\ q.pc = "lp_insert"
    /\ IF /\ LikePkOk(postLikes, q.postId, q.userId)
          /\ LikeFkOk(posts, users, q.postId, q.userId)
       THEN /\ postLikes' = DbInsertLike(postLikes, q.postId, q.userId)
            /\ reqs' = Move(q, [q EXCEPT !.pc = "lp_inc"])
       ELSE \* the statement fails, likePost throws, the route answers 500
            /\ postLikes' = postLikes
            /\ reqs' = Move(q, Respond(q, 500, <<>>))
    /\ UNCHANGED <<impl, dialog, uploads, userCurrentId, now, users, posts, comments,
                   postLikesMap,
                   postCurrentId, commentCurrentId, calls>>

DbUpdateLikes_WholeRow(ps, id, post, newLikes) ==
    [ps EXCEPT ![id] = [post EXCEPT !.likes = newLikes]]

\* db.update(posts).set({ likes }).where(eq(posts.id, id)): one column of the
\* row as it is now; the post read earlier supplies nothing else
DbUpdateLikes(ps, id, post, newLikes) == [ps EXCEPT ![id].likes = newLikes]

LpUpdate(q) ==
    /\ q.pc \in {"lp_dec", "lp_inc"}
    /\ ~RowLocked(q.postId)
    /\ LET post == q.postResult[1]
           currentLikes == OrZero(post.likes)
           newLikes == IF q.pc = "lp_dec" THEN DbUnlikeValue(currentLikes)
                       ELSE DbLikeValue(currentLikes)
       IN /\ posts' = DbUpdateLikes(posts, q.postId, post, newLikes)
          /\ reqs' = Move(q, Respond(q, 200,
                                     <<[post |-> posts'[q.postId],
                                        hasLiked |-> ~q.routeHasLiked]>>))
    /\ UNCHANGED <<impl, dialog, uploads, userCurrentId, now, users, comments, postLikesMap,
                   postLikes,
                   postCurrentId, commentCurrentId, calls>>

\* --------------------------------------------- DatabaseStorage.createPost
DbCreatePost(title, description, fileName, userId) ==
    /\ impl = "db"
    /\ calls < MaxCalls
    /\ calls' = calls + 1
    /\ postCurrentId <= MaxPosts
    /\ postCurrentId' = postCurrentId + 1
    /\ \E t \in ClockReads :
          /\ now' = t
          /\ posts' = (postCurrentId :> NewPost(postCurrentId, title,
                                                description, fileName, userId, t))
                      @@ posts
    /\ UNCHANGED <<impl, dialog, uploads, userCurrentId, users, comments, postLikesMap,
                   postLikes,
                   commentCurrentId, reqs>>

\* ----------------------------------------------------- POST /api/posts
\* !v on a request body field
Falsy(v) == v[1] = "undefined" \/ (v[1] = "string" /\ v[2] = <<>>)

\* !title || typeof title !== 'string'
TitleRejected(title) == Falsy(title) \/ title[1] # "string"

\* the post requests that have yet to draw their id
AwaitingPostId == {q \in BagToSet(reqs) : q.pc = "cp_insert"}

\* upload.single('file') stores the file of the request in the uploads
\* directory under the name the filename callback gives it, then the handler
\* runs: validation, then createPost up to its await, where newPost is built
\* with createdAt = new Date() and the insert is sent
PostArrive(title, description, file, actor, client) ==
    /\ impl = "db"
    /\ BagCardinality(InFlight) < NumSlots
    /\ postCurrentId + BagCardinality([q \in AwaitingPostId |-> reqs[q]])
          <= MaxPosts
    /\ calls < MaxCalls
    /\ calls' = calls + 1
    /\ \E stored \in ClockReads :
          /\ IF file[1] = "file"
             THEN \E randomString \in RandomStrings :
                     uploads' = uploads \cup {StoredFileName(stored * MsPerTick,
                                                             randomString, file[2])}
             ELSE stored = now /\ uploads' = uploads
          /\ LET q == [NewReq EXCEPT !.kind = "post", !.userId = actor,
                                     !.client = client]
             IN IF TitleRejected(title)
                THEN /\ reqs' = InFlight (+) SetToBag({Respond(q, 400, <<>>)})
                     /\ now' = stored
                ELSE IF Unauthenticated(actor)
                THEN /\ reqs' = InFlight (+) SetToBag({Respond(q, 401, <<>>)})
                     /\ now' = stored
                ELSE \E t \in {c \in ClockReads : c >= stored} :
                     /\ now' = t
                     /\ reqs' = InFlight (+) SetToBag({
                           [q EXCEPT !.title = StringOf(Trim(title[2])),
                                     !.description =
                                        IF Falsy(description) THEN ""
                                        ELSE StringOf(Trim(description[2])),
                                     !.fileName = IF file[1] = "file"
                                                  THEN StringOf(file[2]) ELSE NULL,
                                     !.createdAt = t,
                                     !.pc = "cp_insert"]})
    /\ UNCHANGED <<impl, userCurrentId, users, posts, comments, postLikesMap,
                   postLikes, postCurrentId, commentCurrentId>>

\* a request sent by any other client than the dialog
PostStart(title, description, file, actor) ==
    PostArrive(title, description, file, actor, "") /\ UNCHANGED dialog

\* db.insert(posts).values(newPost).returning(), then res.status(201)
CpInsert(q) ==
    /\ q.pc = "cp_insert"
    /\ postCurrentId' = postCurrentId + 1
    /\ LET post == NewPost(postCurrentId, q.title, q.description, q.fileName,
                           q.userId, q.createdAt)
       IN /\ posts' = (postCurrentId :> post) @@ posts
          /\ reqs' = Move(q, Respond(q, 201, <<post>>))
    /\ UNCHANGED <<impl, dialog, uploads, userCurrentId, now, users, comments, postLikesMap,
                   postLikes, commentCurrentId, calls>>

\* ----------------------------------- DatabaseStorage.getCommentsByPostId
\* orderBy(createdAt) fixes the order of rows only up to ties; the stable
\* sort that follows keeps whatever order the database chose among them
AscendingOrders(rows) ==
    {q \in [1..Cardinality(rows) -> rows] :
        /\ \A i, j \in DOMAIN q : i # j => q[i] # q[j]
        /\ \A i, j \in DOMAIN q : i < j => q[i].createdAt <= q[j].createdAt}

DbGetCommentsByPostId(cs, us, postId) ==
    {ResolveAuthors(us, SortDesc(q)) :
        q \in AscendingOrders({cs[i] : i \in {k \in DOMAIN cs : cs[k].postId = postId}})}

\* MemStorage.getAllPosts, reading the clock at t
MemGetAllPosts(t) ==
    /\ impl = "mem"
    /\ calls < MaxCalls
    /\ calls' = calls + 1
    /\ t >= now
    /\ now' = t
    /\ LET res == WithAuthors(users,
                              PostsNewestFirst(ValuesOfPosts(posts, postCurrentId - 1)),
                              t)
           q == [NewReq EXCEPT !.kind = "getAllPosts"]
       IN reqs' = InFlight (+) SetToBag({
                     [Respond(q, 0, IF res.ok THEN <<res.list>> ELSE <<>>)
                        EXCEPT !.threw = ~res.ok]})
    /\ UNCHANGED <<impl, dialog, uploads, userCurrentId, users, posts, comments, postLikesMap,
                   postLikes, postCurrentId, commentCurrentId>>

\* ------------------------------------------------------ GET /api/posts
FeedStart(actor) ==
    /\ impl = "db"
    /\ BagCardinality(InFlight) < NumSlots
    /\ calls < MaxCalls
    /\ calls' = calls + 1
    /\ reqs' = InFlight (+) SetToBag({
                   [NewReq EXCEPT !.kind = "feed", !.userId = actor,
                                  !.pc = "ga_select"]})
    /\ UNCHANGED <<impl, dialog, uploads, userCurrentId, now, users, posts, comments,
                   postLikesMap, postLikes, postCurrentId, commentCurrentId>>

\* db.select().from(posts).orderBy(posts.createdAt): ties in any order
GaSelect(q) ==
    /\ q.pc = "ga_select"
    /\ \E allPosts \in AscendingOrders({posts[p] : p \in DOMAIN posts}) :
          reqs' = Move(q, [q EXCEPT !.allPosts = allPosts, !.pc = "ga_authors"])
    /\ UNCHANGED <<impl, dialog, uploads, userCurrentId, now, users, posts, comments,
                   postLikesMap, postLikes, postCurrentId, commentCurrentId, calls>>

\* with hasLiked: false on every post
WithoutLikes(list) ==
    [i \in 1..Len(list) |-> [post |-> list[i], hasLiked |-> FALSE]]

\* the author lookups resolve, reading the clock at t, and getAllPosts
\* returns or throws; the route answers 500, or 200 for a request without a
\* user, or goes on to ask hasUserLikedPost for every post
GaAuthors(q, t) ==
    /\ q.pc = "ga_authors"
    /\ t >= now
    /\ now' = t
    /\ LET res == WithAuthors(users, q.allPosts, t)
           sorted == PostsNewestFirst(res.list)
       IN reqs' = Move(q,
             IF ~res.ok THEN Respond(q, 500, <<>>)
             ELSE IF q.userId = NoUser THEN Respond(q, 200, <<WithoutLikes(sorted)>>)
             ELSE [q EXCEPT !.allPosts = <<>>, !.feed = WithoutLikes(sorted),
                            !.pending = 1..Len(sorted), !.pc = "feed_has"])
    /\ UNCHANGED <<impl, dialog, uploads, userCurrentId, users, posts, comments, postLikesMap,
                   postLikes, postCurrentId, commentCurrentId, calls>>

\* one hasUserLikedPost(post.id, userId) of the Promise.all resolves; the
\* last one to resolve sends the response
FeedHas(q, i) ==
    /\ q.pc = "feed_has"
    /\ i \in q.pending
    /\ LET feed == [q.feed EXCEPT ![i].hasLiked =
                       DbHasUserLikedPost(postLikes, q.feed[i].post.id, q.userId)]
       IN reqs' = Move(q, IF q.pending = {i} THEN Respond(q, 200, <<feed>>)
                          ELSE [q EXCEPT !.feed = feed,
                                         !.pending = q.pending \ {i}])
    /\ UNCHANGED <<impl, dialog, uploads, userCurrentId, now, users, posts, comments,
                   postLikesMap, postLikes, postCurrentId, commentCurrentId, calls>>

\* ------------------------------------- POST /api/posts/:id/comments
ContentInvalid_EmptyOnly(content) == content = <<>>

\* !content || typeof content !== 'string' || content.trim() === ''
ContentInvalid(content) == content = <<>> \/ Trim(content) = <<>>

\* the comment requests that have yet to draw their id
AwaitingId == {q \in BagToSet(reqs) : q.pc = "cm_insert"}

CommentStart(postId, actor, content) ==
    /\ impl = "db"
    /\ BagCardinality(InFlight) < NumSlots
    /\ commentCurrentId + BagCardinality([q \in AwaitingId |-> reqs[q]])
          <= MaxComments
    /\ calls < MaxCalls
    /\ calls' = calls + 1
    /\ LET q == [NewReq EXCEPT !.kind = "comment", !.postId = postId,
                               !.userId = actor]
       IN reqs' = InFlight (+) SetToBag({
                     IF Unauthenticated(actor) THEN Respond(q, 401, <<>>)
                     ELSE IF ContentInvalid(content) THEN Respond(q, 400, <<>>)
                     ELSE [q EXCEPT !.content = Trim(content),
                                    !.pc = "cm_insert"]})
    /\ UNCHANGED <<impl, dialog, uploads, userCurrentId, now, users, posts, comments,
                   postLikesMap, postLikes,
                   postCurrentId, commentCurrentId>>

\* tx.insert(comments): the serial id is drawn even when the statement fails
CmTxInsert(q) ==
    /\ q.pc = "cm_insert"
    /\ commentCurrentId' = commentCurrentId + 1
    /\ IF CommentFkOk(posts, users, q.postId, q.userId)
       THEN \E t \in ClockReads :
            LET row == NewComment(commentCurrentId, q.content, q.postId,
                                  q.userId, t)
            IN /\ now' = t
               /\ comments' = TxInsertVisible(comments, row)
               /\ reqs' = Move(q, [q EXCEPT !.newComment = <<row>>,
                                            !.pc = "cm_update"])
       ELSE \* the transaction rolls back, createComment throws
            /\ UNCHANGED <<now, comments>>
            /\ reqs' = Move(q, Respond(q, 500, <<>>))
    /\ UNCHANGED <<impl, dialog, uploads, userCurrentId, users, posts, postLikesMap, postLikes,
                   postCurrentId,
                   calls>>

\* tx.update(posts).set(comments + 1): takes the row lock, holds it to commit
CmTxUpdate(q) ==
    /\ q.pc = "cm_update"
    /\ ~RowLocked(q.postId)
    /\ reqs' = Move(q, [q EXCEPT !.pc = "cm_commit"])
    /\ UNCHANGED <<impl, dialog, uploads, userCurrentId, now, users, posts, comments,
                   postLikesMap, postLikes,
                   postCurrentId, commentCurrentId, calls>>

\* commit: the inserted row and the relative increment become visible together
CmCommit(q) ==
    /\ q.pc = "cm_commit"
    /\ LET row == q.newComment[1]
       IN /\ comments' = (row.id :> row) @@ comments
          /\ posts' = [posts EXCEPT ![row.postId].comments =
                                       posts[row.postId].comments + 1]
    /\ reqs' = Move(q, [q EXCEPT !.pc = "cm_list"])
    /\ UNCHANGED <<impl, dialog, uploads, userCurrentId, now, users, postLikesMap, postLikes,
                   postCurrentId,
                   commentCurrentId, calls>>

\* getCommentsByPostId, then comments.find(c => c.id === comment.id)
CmList(q) ==
    /\ q.pc = "cm_list"
    /\ \E res \in DbGetCommentsByPostId(comments, users, q.postId) :
          LET id == q.newComment[1].id
              hits == IF res.ok
                      THEN {i \in 1..Len(res.list) : res.list[i].id = id}
                      ELSE {}
          IN reqs' = Move(q, IF hits = {} THEN Respond(q, 500, <<>>)
                             ELSE Respond(q, 201,
                                          <<res.list[CHOOSE i \in hits : TRUE]>>))
    /\ UNCHANGED <<impl, dialog, uploads, userCurrentId, now, users, posts, comments,
                   postLikesMap, postLikes,
                   postCurrentId, commentCurrentId, calls>>

\* ------------------------------------ likePost run without interleaving
DbLikePostSeq(ps, pl, us, id, userId) ==
    LET postResult == DbSelectPost(ps, id)
    IN IF PostMissing(postResult)
       THEN [found |-> FALSE, posts |-> ps, postLikes |-> pl]
       ELSE LET currentLikes == OrZero(postResult[1].likes)
            IN IF DbHasUserLikedPost(pl, id, userId)
               THEN [found |-> TRUE,
                     posts |-> [ps EXCEPT ![id].likes = DbUnlikeValue(currentLikes)],
                     postLikes |-> DbDeleteLike(pl, id, userId)]
               ELSE IF LikePkOk(pl, id, userId) /\ LikeFkOk(ps, us, id, userId)
                    THEN [found |-> TRUE,
                          posts |-> [ps EXCEPT ![id].likes = DbLikeValue(currentLikes)],
                          postLikes |-> DbInsertLike(pl, id, userId)]
                    ELSE [found |-> TRUE, posts |-> ps, postLikes |-> pl]

\* ------------------------------------------------------------ createUser
NewUser(id, username, fullName, role) ==
    [id |-> id, username |-> username, password |-> "password123",
     fullName |-> fullName, role |-> role]

\* createUserInternal as a function of the users map: draws the next id and
\* stores the user, no lookup first; role: userData.role || null
MemCreateUserOp(us, id, username, fullName, role) ==
    LET user == NewUser(id, username, fullName, OrNull(role))
    IN [threw |-> FALSE, user |-> <<user>>, users |-> (id :> user) @@ us]

MemCreateUser(username, fullName, role) ==
    /\ impl = "mem"
    /\ calls < MaxCalls
    /\ calls' = calls + 1
    /\ userCurrentId <= MaxUsers
    /\ userCurrentId' = userCurrentId + 1
    /\ users' = MemCreateUserOp(users, userCurrentId, username, fullName,
                                role).users
    /\ UNCHANGED <<impl, dialog, uploads, now, posts, comments, postLikesMap,
                   postLikes,
                   postCurrentId, commentCurrentId, reqs>>

\* text("username").notNull().unique()
UsernameUniqueOk(us, username) == \A id \in DOMAIN us : us[id].username # username

\* db.insert(users).values(userData).returning() as a function of the users
\* table: the unique constraint rejects a username already stored
DbCreateUserOp(us, id, username, fullName, role) ==
    LET user == NewUser(id, username, fullName, role)
    IN IF UsernameUniqueOk(us, username)
       THEN [threw |-> FALSE, user |-> <<user>>, users |-> (id :> user) @@ us]
       ELSE [threw |-> TRUE, user |-> <<>>, users |-> us]

\* the serial id is drawn even when the statement fails
DbCreateUser(username, fullName, role) ==
    /\ impl = "db"
    /\ calls < MaxCalls
    /\ calls' = calls + 1
    /\ userCurrentId <= MaxUsers
    /\ userCurrentId' = userCurrentId + 1
    /\ users' = DbCreateUserOp(users, userCurrentId, username, fullName,
                               role).users
    /\ UNCHANGED <<impl, dialog, uploads, now, posts, comments, postLikesMap,
                   postLikes,
                   postCurrentId, commentCurrentId, reqs>>

\* ------------------------------------------------ CreateDocumentDialog
\* z.string().min(1) on a form field
FormFieldValid(v) == v[1] = "string" /\ Len(v[2]) >= 1

\* the parent opens the dialog
DialogOpen ==
    /\ ~dialog.open
    /\ dialog' = [dialog EXCEPT !.open = TRUE]
    /\ UNCHANGED <<impl, now, users, posts, comments, postLikesMap, postLikes,
                   userCurrentId, postCurrentId, commentCurrentId, calls, reqs,
                   uploads>>

\* onSubmit up to its await: setIsSubmitting(true), and the request that
\* fetch sends arrives at the server
DialogSubmit(title, description, file, actor) ==
    /\ dialog.open /\ ~dialog.isSubmitting
    /\ FormFieldValid(title) /\ FormFieldValid(description)
    /\ PostArrive(title, description, file, actor, "dialog")
    /\ dialog' = [dialog EXCEPT !.isSubmitting = TRUE]

SuccessToast == "Document created"
FailureToast == "Failed to create document"

\* the statements after await fetch(...): the response is not looked at; the
\* success toast, form.reset(), onOpenChange(false), then finally
AfterFetch(status) ==
    [open |-> FALSE, isSubmitting |-> FALSE, toast |-> SuccessToast]

\* fetch resolves with the response x, whatever its status
DialogReceive(x) ==
    /\ dialog.isSubmitting
    /\ x.pc = "done" /\ x.client = "dialog"
    /\ dialog' = AfterFetch(x.status)
    /\ UNCHANGED <<impl, now, users, posts, comments, postLikesMap, postLikes,
                   userCurrentId, postCurrentId, commentCurrentId, calls, reqs,
                   uploads>>

\* fetch rejects (the server cannot be reached): catch, then finally
DialogFetchFails ==
    /\ dialog.open /\ ~dialog.isSubmitting
    /\ dialog' = [dialog EXCEPT !.toast = FailureToast]
    /\ UNCHANGED <<impl, now, users, posts, comments, postLikesMap, postLikes,
                   userCurrentId, postCurrentId, commentCurrentId, calls, reqs,
                   uploads>>

\* ------------------------------------------------------- specifications
CreatePostNext ==
    \/ \E userId \in AuthorIdArgs : MemCreatePost("Roadmap", "", "", userId)
    \/ \E userId \in AuthorIdArgs : DbCreatePost("Roadmap", "", "", userId)

LikeNext ==
    \/ \E id \in PostIdArgs, userId \in UserIdArgs : MemLikePost(id, userId)
    \/ \E postId \in PostIdArgs, actor \in Actors : LikeStart(postId, actor)
    \/ \E q \in BagToSet(reqs) : LikeRouteHas(q)
    \/ \E q \in BagToSet(reqs) : LpSelect(q)
    \/ \E q \in BagToSet(reqs) : LpHas(q)
    \/ \E q \in BagToSet(reqs) : LpDelete(q)
    \/ \E q \in BagToSet(reqs) : LpInsert(q)
    \/ \E q \in BagToSet(reqs) : LpUpdate(q)

CommentNext ==
    \/ \E postId \in PostIdArgs, userId \in AuthorIdArgs :
          MemCreateComment(<<"o", "k">>, postId, userId)
    \/ \E postId \in PostIdArgs, actor \in CommentActors, content \in Contents :
          CommentStart(postId, actor, content)
    \/ \E q \in BagToSet(reqs) : CmTxInsert(q)
    \/ \E q \in BagToSet(reqs) : CmTxUpdate(q)
    \/ \E q \in BagToSet(reqs) : CmCommit(q)
    \/ \E q \in BagToSet(reqs) : CmList(q)

\* createPost called directly with any title and fileName
CreatePostArgsNext ==
    \/ \E title \in TitleArgs, fileName \in FileNameArgs, userId \in AuthorIdArgs :
          MemCreatePost(title, "", fileName, userId)
    \/ \E title \in TitleArgs, fileName \in FileNameArgs, userId \in AuthorIdArgs :
          DbCreatePost(title, "", fileName, userId)

PostRouteNext ==
    \/ \E title \in TitleInputs, description \in DescriptionInputs,
          file \in FileInputs, actor \in CommentActors :
          PostStart(title, description, file, actor)
    \/ \E q \in BagToSet(reqs) : CpInsert(q)

\* the hasUserLikedPost reads of one feed, taken in list order
FirstPending(q) == {i \in q.pending : \A j \in q.pending : i <= j}

\* the feed, read at the time of the last clock read or long after startup
FeedNext ==
    \/ \E t \in {now} : MemGetAllPosts(t)
    \/ \E actor \in Viewers : FeedStart(actor)
    \/ \E q \in BagToSet(reqs) : GaSelect(q)
    \/ \E q \in BagToSet(reqs), t \in {now} : GaAuthors(q, t)
    \/ \E q \in BagToSet(reqs) : \E i \in FirstPending(q) : FeedHas(q, i)

LateFeedNext ==
    \/ \E t \in LateClockReads : MemGetAllPosts(t)
    \/ \E q \in BagToSet(reqs), t \in LateClockReads : GaAuthors(q, t)

\* like toggles of one user on one seeded post
FeedLikeNext ==
    \/ \E actor \in FeedLikers : LikeStart(1, actor)
    \/ \E q \in BagToSet(reqs) : LikeRouteHas(q)
    \/ \E q \in BagToSet(reqs) : LpSelect(q)
    \/ \E q \in BagToSet(reqs) : LpHas(q)
    \/ \E q \in BagToSet(reqs) : LpDelete(q)
    \/ \E q \in BagToSet(reqs) : LpInsert(q)
    \/ \E q \in BagToSet(reqs) : LpUpdate(q)

UserNext ==
    \/ \E username \in Usernames, role \in Roles :
          MemCreateUser(username, "New User", role)
    \/ \E username \in Usernames, role \in Roles :
          DbCreateUser(username, "New User", role)

\* users only
SpecUser == Init /\ [][UserNext]_vars

\* posts only
NextPost == CreatePostArgsNext \/ PostRouteNext
SpecPost == Init /\ [][NextPost]_vars

\* posts only, the route's requests without a description and without a file
NextCreate ==
    \/ CreatePostArgsNext
    \/ \E title \in TitleInputs, actor \in CommentActors :
          PostStart(title, <<"undefined", <<>>>>, <<"undefined", <<>>>>, actor)
    \/ \E q \in BagToSet(reqs) : CpInsert(q)
SpecCreate == Init /\ [][NextCreate]_vars

\* posts and the feed
NextFeed == CreatePostNext \/ FeedNext
SpecFeed == Init /\ [][NextFeed]_vars

\* likes of one user and the feed
NextViewer == FeedLikeNext \/ FeedNext
SpecViewer == Init /\ [][NextViewer]_vars

\* posts and the feed as time passes
NextTime ==
    \/ \E userId \in {1} : MemCreatePost("Roadmap", "", "", userId)
    \/ \E userId \in {1} : DbCreatePost("Roadmap", "", "", userId)
    \/ \E actor \in {NoUser} : FeedStart(actor)
    \/ \E q \in BagToSet(reqs) : GaSelect(q)
    \/ LateFeedNext
SpecTime == Init /\ [][NextTime]_vars

\* likes only
SpecToggle == Init /\ [][LikeNext]_vars

\* comments only
SpecReply == Init /\ [][CommentNext]_vars

\* posts and likes only
NextLike == CreatePostNext \/ LikeNext
SpecLike == Init /\ [][NextLike]_vars

\* posts and comments only
NextComment == CreatePostNext \/ CommentNext
SpecComment == Init /\ [][NextComment]_vars

\* like toggles and comment creations on one seeded post, every step of a
\* request taken eventually: each store call returns or throws
NextLive ==
    \/ \E actor \in FeedLikers : calls < MaxLiveCalls /\ LikeStart(1, actor)
    \/ \E actor \in CommentActors :
          calls < MaxLiveCalls /\ CommentStart(1, actor, <<"o", "k", " ">>)
    \/ \E q \in BagToSet(reqs) : LikeRouteHas(q)
    \/ \E q \in BagToSet(reqs) : LpSelect(q)
    \/ \E q \in BagToSet(reqs) : LpHas(q)
    \/ \E q \in BagToSet(reqs) : LpDelete(q)
    \/ \E q \in BagToSet(reqs) : LpInsert(q)
    \/ \E q \in BagToSet(reqs) : LpUpdate(q)
    \/ \E q \in BagToSet(reqs) : CmTxInsert(q)
    \/ \E q \in BagToSet(reqs) : CmTxUpdate(q)
    \/ \E q \in BagToSet(reqs) : CmCommit(q)
    \/ \E q \in BagToSet(reqs) : CmList(q)

FairLive ==
    /\ WF_vars(\E q \in BagToSet(reqs) : LikeRouteHas(q))
    /\ WF_vars(\E q \in BagToSet(reqs) : LpSelect(q))
    /\ WF_vars(\E q \in BagToSet(reqs) : LpHas(q))
    /\ WF_vars(\E q \in BagToSet(reqs) : LpDelete(q))
    /\ WF_vars(\E q \in BagToSet(reqs) : LpInsert(q))
    /\ WF_vars(\E q \in BagToSet(reqs) : LpUpdate(q))
    /\ WF_vars(\E q \in BagToSet(reqs) : CmTxInsert(q))
    /\ WF_vars(\E q \in BagToSet(reqs) : CmTxUpdate(q))
    /\ WF_vars(\E q \in BagToSet(reqs) : CmCommit(q))
    /\ WF_vars(\E q \in BagToSet(reqs) : CmList(q))

SpecLive == Init /\ [][NextLive]_vars /\ FairLive

\* direct likePost and createComment calls, and like and comment requests
\* on one seeded post
NextFrame ==
    \/ \E id \in PostIdArgs, userId \in UserIdArgs : MemLikePost(id, userId)
    \/ \E postId \in PostIdArgs, userId \in AuthorIdArgs :
          MemCreateComment(<<"o", "k">>, postId, userId)
    \/ NextLive
SpecFrame == Init /\ [][NextFrame]_vars

\* MemStorage only: createPost and likePost calls
NextMemLike ==
    \/ \E userId \in AuthorIdArgs : MemCreatePost("Roadmap", "", "", userId)
    \/ \E id \in PostIdArgs, userId \in UserIdArgs : MemLikePost(id, userId)
SpecMemLike == Init /\ [][NextMemLike]_vars

\* the dialog and the requests it sends
NextDialog ==
    \/ DialogOpen
    \/ \E title \in TitleInputs, description \in DescriptionInputs,
          file \in FileInputs, actor \in CommentActors :
          DialogSubmit(title, description, file, actor)
    \/ \E q \in BagToSet(reqs) : CpInsert(q)
    \/ \E x \in BagToSet(reqs) : DialogReceive(x)
    \/ DialogFetchFails
SpecDialog == Init /\ [][NextDialog]_vars

\* everything
Next ==
    \/ CreatePostNext \/ CreatePostArgsNext \/ PostRouteNext
    \/ LikeNext \/ CommentNext \/ UserNext
    \/ FeedNext \/ LateFeedNext
    \/ \E q \in BagToSet(reqs), i \in 1..MaxPosts : FeedHas(q, i)
    \/ NextLive \/ NextDialog
Spec == Init /\ [][Next]_vars

\* ================================================================ properties
Quiescent == InFlight = EmptyBag

\* the users holding a like row on post p, in whichever store is selected
MemLikers(p) == {u \in UserIdArgs : MemHasUserLikedPost(postLikesMap, p, u)}

LikeRowCount(p) ==
    IF impl = "mem" THEN Cardinality(MemLikers(p))
    ELSE BagCardinality([row \in {x \in BagToSet(postLikes) : x.postId = p}
                           |-> postLikes[row]])

CommentRowCount(p) == Cardinality({i \in DOMAIN comments : comments[i].postId = p})

\* the like requests on post p that have been answered
DoneLikes(p) ==
    [q \in {x \in BagToSet(reqs) :
               x.pc = "done" /\ x.kind = "like" /\ x.postId = p} |-> reqs[q]]

DoneLikesBy(p, u) ==
    [q \in {x \in BagToSet(DoneLikes(p)) : x.userId = u} |-> reqs[q]]

\* C1: every post's likes counter equals the number of like rows for that
\* post, in every reachable state.
C1_LikesEqualRows ==
    \A p \in DOMAIN posts : posts[p].likes = LikeRowCount(p)

\* C2: when the first two like toggles are by two different users on the same
\* existing post, then once both have answered, both succeeded and the likes
\* counter is exactly 2 above its value before them.
C2_ConcurrentLikesBothCount ==
    \A p \in DOMAIN posts :
       \A a, b \in BagToSet(DoneLikes(p)) :
          (/\ impl = "db" /\ calls = 2
           /\ a.userId # NoUser /\ b.userId # NoUser
           /\ a.userId # b.userId)
          => /\ a.status = 200 /\ b.status = 200
             /\ posts[p].likes = InitLikes(p) + 2

\* C3: when the first two like toggles are by the same user on the same
\* existing post, then once both have answered, neither failed and like status
\* and counter are those of two sequential toggles (back at the start).
C3_DuplicateToggleAtomic ==
    \A p \in DOMAIN posts, u \in Actors \ {NoUser} :
       (impl = "db" /\ calls = 2 /\ BagCardinality(DoneLikesBy(p, u)) = 2)
       => /\ \A q \in BagToSet(DoneLikesBy(p, u)) : q.status = 200
          /\ posts[p].likes = InitLikes(p)
          /\ ~DbHasUserLikedPost(postLikes, p, u)

\* C4: in every state with no request in flight, two successive toggles of
\* post p by user u leave u's like status and p's likes counter as they were.
TwiceMem(p, u) ==
    LET s1 == MemLikePostOp(posts, postLikesMap, p, u)
    IN MemLikePostOp(s1.posts, s1.postLikesMap, p, u)

TwiceDb(p, u) ==
    LET s1 == DbLikePostSeq(posts, postLikes, users, p, u)
    IN DbLikePostSeq(s1.posts, s1.postLikes, users, p, u)

C4_TwoTogglesRestore ==
    Quiescent =>
      \A p \in DOMAIN posts, u \in DOMAIN users :
         IF impl = "mem"
         THEN /\ TwiceMem(p, u).posts[p].likes = posts[p].likes
              /\ MemHasUserLikedPost(TwiceMem(p, u).postLikesMap, p, u)
                    = MemHasUserLikedPost(postLikesMap, p, u)
         ELSE /\ TwiceDb(p, u).posts[p].likes = posts[p].likes
              /\ DbHasUserLikedPost(TwiceDb(p, u).postLikes, p, u)
                    = DbHasUserLikedPost(postLikes, p, u)

\* C5: no post's likes counter is ever negative.
C5_LikesNonNegative == \A p \in DOMAIN posts : posts[p].likes >= 0

\* an unlike has answered with a counter of 0
C5_Witness ==
    \E p \in DOMAIN posts : \E q \in BagToSet(DoneLikes(p)) :
       /\ q.status = 200
       /\ ~q.body[1].hasLiked
       /\ q.body[1].post.likes = 0
       /\ posts[p].likes = 0

\* C6: every step of a like request whose post id names no post leaves the
\* store unchanged, and its post lookup ends the request with 404.
C6_MissingPostNoChange ==
    [][\A q \in BagToSet(reqs) :
          (/\ q.kind = "like"
           /\ q.pc # "done"
           /\ q.postId \notin DOMAIN posts
           /\ CopiesIn(q, reqs') < CopiesIn(q, reqs))
          => /\ store' = store
             /\ q.pc = "lp_select" => reqs' = Move(q, Respond(q, 404, <<>>))]_vars

C6_Witness ==
    \E q \in BagToSet(reqs) :
       /\ q.pc = "done" /\ q.kind = "like" /\ q.status = 404
       /\ q.postId \notin DOMAIN posts

\* C7: no (postId, userId) pair has more than one row in the like relation.
C7_LikePairUnique ==
    /\ \A row \in BagToSet(postLikes) :
          /\ CopiesIn(row, postLikes) = 1
          /\ LikeRowsOf(postLikes, row.postId, row.userId) = {row}
    /\ \A key \in DOMAIN postLikesMap :
          Cardinality({pu \in PostIdArgs \X UserIdArgs :
                          LikeKey(pu[1], pu[2]) = key}) = 1

\* a second insert of a pair that already has a row was rejected
C7_Witness ==
    \E p \in DOMAIN posts : \E q \in BagToSet(DoneLikes(p)) :
       /\ q.status = 500
       /\ DbHasUserLikedPost(postLikes, p, q.userId)

\* C8: every post's comments counter equals the number of stored comments
\* on that post, in every reachable state.
C8_CommentsEqualRows ==
    \A p \in DOMAIN posts : posts[p].comments = CommentRowCount(p)

\* C9: when a comment by an existing user becomes stored for existing post P,
\* P.comments grows by 1, the comment list of P grows by one entry and the
\* new comment is its first entry.
CommentLists(cs, p) ==
    IF impl = "mem" THEN {MemGetCommentsByPostId(cs, users, p)}
    ELSE DbGetCommentsByPostId(cs, users, p)

C9_NewCommentFirst ==
    [][\A id \in DOMAIN comments' \ DOMAIN comments :
          LET p == comments'[id].postId
          IN (/\ p \in DOMAIN posts
              /\ comments'[id].userId \in DOMAIN users
              /\ \A before \in CommentLists(comments, p) : before.ok)
             => /\ posts'[p].comments = posts[p].comments + 1
                /\ \A before \in CommentLists(comments, p) :
                   \A after \in CommentLists(comments', p) :
                      /\ after.ok
                      /\ Len(after.list) = Len(before.list) + 1
                      /\ after.list[1].id = id]_vars

\* C10: in every state another request can observe, each post's comments
\* counter has grown by exactly the number of comment rows stored for it:
\* no row without its increment, no increment without its row.
C10_CommentAtomic ==
    impl = "db" =>
       \A p \in DOMAIN posts :
          posts[p].comments = InitComments(p) + CommentRowCount(p)

\* one createComment has committed while a second one on the same post has
\* inserted and incremented inside its open transaction
C10_Witness ==
    \E a, b \in BagToSet(reqs) :
       /\ a.pc = "cm_list" /\ b.pc = "cm_commit"
       /\ a.postId = b.postId
       /\ CommentRowCount(a.postId) = 1

\* the (postId, userId) pairs holding a like row in MemStorage
MemLikeRows ==
    {pu \in PostIdArgs \X UserIdArgs : MemHasUserLikedPost(postLikesMap, pu[1], pu[2])}

\* C11: in every reachable state every post, comment and like row names an
\* existing user, and every comment and like row names an existing post.
C11_ReferentialIntegrity ==
    /\ \A p \in DOMAIN posts : posts[p].userId \in DOMAIN users
    /\ \A c \in DOMAIN comments :
          /\ comments[c].userId \in DOMAIN users
          /\ comments[c].postId \in DOMAIN posts
    /\ \A row \in BagToSet(postLikes) :
          row.userId \in DOMAIN users /\ row.postId \in DOMAIN posts
    /\ \A pu \in MemLikeRows : pu[2] \in DOMAIN users /\ pu[1] \in DOMAIN posts

\* C12: no two users share a username, in every reachable state.
C12_UsernameUnique ==
    \A a, b \in DOMAIN users : users[a].username = users[b].username => a = b

\* the requests whose record the step has written
Arrived == {x \in BagToSet(reqs') : CopiesIn(x, reqs') > CopiesIn(x, reqs)}

\* the request the step has taken in: an arrival drops the answered requests
Started == BagToSet(reqs' (-) InFlight)

\* the posts a getAllPosts result or a feed request holds
ListedPosts(x) ==
    IF x.kind = "getAllPosts" THEN (IF x.threw THEN <<>> ELSE x.body[1])
    ELSE LET entries == IF x.pc = "feed_has" THEN x.feed
                        ELSE IF x.body = <<>> THEN <<>> ELSE x.body[1]
         IN [i \in 1..Len(entries) |-> entries[i].post]

\* the getAllPosts results the step has produced: the call on MemStorage, or
\* the step of a feed request in which DatabaseStorage.getAllPosts returns
GetAllPostsResults ==
    IF MemGetAllPosts(now')
    THEN {x \in BagToSet(reqs') : x.kind = "getAllPosts"}
    ELSE {x \in Arrived : \E q \in BagToSet(reqs) :
                             GaAuthors(q, now') /\ reqs' = Move(q, x)}

Ago(n, unit) == ToString(n) \o " " \o unit \o (IF n = 1 THEN "" ELSE "s") \o " ago"

\* the text the claim gives for an age of d whole seconds
TimeAgoOf(d) ==
    IF d < 60 THEN ToString(d) \o " seconds ago"
    ELSE IF d < 3600 THEN Ago(d \div 60, "minute")
    ELSE IF d < 86400 THEN Ago(d \div 3600, "hour")
    ELSE IF d < 30 * 86400 THEN Ago(d \div 86400, "day")
    ELSE Ago((d \div 86400) \div 30, "month")

\* the posts the listing x was computed from: the store for MemStorage, the
\* rows its select returned for DatabaseStorage
ListedFrom(x) ==
    IF x.kind = "getAllPosts" THEN ValuesOfPosts(posts, postCurrentId - 1)
    ELSE LET q == CHOOSE q \in BagToSet(reqs) :
                     GaAuthors(q, now') /\ reqs' = Move(q, x)
         IN q.allPosts

Returned(x) == IF x.kind = "getAllPosts" THEN ~x.threw ELSE x.status # 500

\* list holds every post of the store ps exactly once
EachStoredOnce(list, ps) ==
    /\ Len(list) = Cardinality(DOMAIN ps)
    /\ \A p \in DOMAIN ps : \E i \in 1..Len(list) : list[i] = ps[p]

\* C14: the select of getAllPosts returns every stored post exactly once, and
\* getAllPosts returns exactly the posts listed, each once, every entry at
\* least as new as the entry after it.
C14_AllPostsNewestFirst ==
    [][/\ \A x \in Arrived :
             x.pc = "ga_authors" => EachStoredOnce(x.allPosts, posts)
       /\ \A x \in GetAllPostsResults :
             Returned(x) =>
                LET list == ListedPosts(x)
                    from == ListedFrom(x)
                IN /\ x.kind = "getAllPosts" => EachStoredOnce(from, posts)
                   /\ Len(list) = Len(from)
                   /\ \A i \in 1..Len(from) :
                         Cardinality({j \in 1..Len(list) : list[j].id = from[i].id}) = 1
                   /\ \A i \in 1..(Len(list) - 1) :
                         list[i].createdAt >= list[i + 1].createdAt
      ]_vars

\* a listing of three posts has answered with the post created last in front
C14_Witness ==
    \E x \in BagToSet(reqs) :
       /\ x.pc = "done" /\ x.kind \in {"getAllPosts", "feed"}
       /\ Len(ListedPosts(x)) = 3
       /\ ListedPosts(x)[1].id = 3

\* the entries, each a post with its hasLiked, that a feed request holds
FeedEntries(x) ==
    IF x.pc = "feed_has" THEN x.feed
    ELSE IF x.body = <<>> THEN <<>> ELSE x.body[1]

\* C15: a feed answered to a request without a user has hasLiked = FALSE on
\* every post; for a viewer, each hasLiked read is TRUE exactly when the like
\* row (post, viewer) exists at that read, and the answer carries the values
\* read.
C15_FeedHasLiked ==
    [][/\ \A x \in Arrived :
             (x.kind = "feed" /\ x.pc = "done" /\ x.status = 200 /\ x.userId = NoUser)
             => \A i \in 1..Len(FeedEntries(x)) : ~FeedEntries(x)[i].hasLiked
       /\ \A q \in BagToSet(reqs) : \A i \in 1..MaxPosts :
             FeedHas(q, i) =>
                \A x \in Arrived :
                   /\ x.userId = q.userId /\ q.userId # NoUser
                   /\ Len(FeedEntries(x)) = Len(q.feed)
                   /\ FeedEntries(x)[i].hasLiked
                         = ([postId |-> q.feed[i].post.id, userId |-> q.userId]
                               \in BagToSet(postLikes))
                   /\ \A j \in 1..Len(q.feed) :
                         /\ FeedEntries(x)[j].post = q.feed[j].post
                         /\ j # i => FeedEntries(x)[j].hasLiked = q.feed[j].hasLiked
      ]_vars

\* a viewer's feed has answered with one post liked and one not, while the
\* like row of the liked post exists
C15_Witness ==
    \E x \in BagToSet(reqs) :
       /\ x.kind = "feed" /\ x.pc = "done" /\ x.status = 200 /\ x.userId # NoUser
       /\ \E i, j \in 1..Len(FeedEntries(x)) :
             /\ FeedEntries(x)[i].hasLiked
             /\ ~FeedEntries(x)[j].hasLiked
             /\ DbHasUserLikedPost(postLikes, FeedEntries(x)[i].post.id, x.userId)

\* C16: a listing computed from posts of which one names no existing user
\* fails as a whole: getAllPosts throws and the feed request is answered 500
\* with no list.
C16_MissingAuthorFails ==
    [][\A x \in GetAllPostsResults :
          (\E i \in 1..Len(ListedFrom(x)) : ListedFrom(x)[i].userId \notin DOMAIN users)
          => /\ ~Returned(x)
             /\ x.pc = "done" /\ x.body = <<>>
             /\ x.kind = "feed" => x.status = 500
      ]_vars

\* a feed request was answered 500 while a stored post names no user
C16_Witness ==
    \E x \in BagToSet(reqs) :
       /\ x.pc = "done" /\ x.kind = "feed" /\ x.status = 500
       /\ \E p \in DOMAIN posts : posts[p].userId \notin DOMAIN users

\* C17: every timeAgo that getAllPosts computes for a post aged d whole
\* seconds, d >= 0, is the text of d's bucket with N rounded down and the unit
\* singular exactly when N = 1; 59 s, 60 s and 3661 s give the three texts
\* the claim names.
C17_TimeAgoBuckets ==
    [][/\ \A x \in GetAllPostsResults :
          \A i \in 1..Len(ListedPosts(x)) :
             LET post == ListedPosts(x)[i]
                 d == (now' - post.createdAt) \div TicksPerSecond
             IN d >= 0 => post.timeAgo = TimeAgoOf(d)
       /\ GetTimeAgo(T0 + 59 * TicksPerSecond, T0) = "59 seconds ago"
       /\ GetTimeAgo(T0 + 60 * TicksPerSecond, T0) = "1 minute ago"
       /\ GetTimeAgo(T0 + 3661 * TicksPerSecond, T0) = "1 hour ago"
      ]_vars

\* one listing holds a post aged 59 seconds, one aged 2 hours and one aged a day
C17_Witness ==
    \E x \in BagToSet(reqs) :
       /\ x.pc = "done" /\ x.kind \in {"getAllPosts", "feed"}
       /\ {ListedPosts(x)[i].timeAgo : i \in 1..Len(ListedPosts(x))}
             = {"59 seconds ago", "2 hours ago", "1 day ago"}

\* exactly one post is added by the step, under an id no stored post has,
\* with likes = 0 and comments = 0 and the given fields (fileName stored as
\* storedFileName); every post stored before is unchanged
PostAdded(title, description, storedFileName, userId) ==
    LET new == DOMAIN posts' \ DOMAIN posts
    IN /\ Cardinality(new) = 1
       /\ DOMAIN posts \subseteq DOMAIN posts'
       /\ \A p \in DOMAIN posts : posts'[p] = posts[p]
       /\ \A id \in new :
             /\ posts'[id].id = id
             /\ posts'[id].likes = 0 /\ posts'[id].comments = 0
             /\ posts'[id].title = title
             /\ posts'[id].description = description
             /\ posts'[id].fileName = storedFileName
             /\ posts'[id].userId = userId

\* C13 as stated: every createPost adds one post under a fresh id with zeroed
\* counters and with title, description, fileName and userId exactly as given,
\* and changes no other post.
C13_CreatePostAsGiven ==
    [][postCurrentId' # postCurrentId =>
       /\ \A title \in TitleArgs, fileName \in FileNameArgs, userId \in AuthorIdArgs :
             (\/ MemCreatePost(title, "", fileName, userId)
              \/ DbCreatePost(title, "", fileName, userId))
             => PostAdded(title, "", fileName, userId)
       /\ \A q \in BagToSet(reqs) :
             CpInsert(q) => PostAdded(q.title, q.description, q.fileName, q.userId)
      ]_vars

\* C13 amended: as above, except that the stored fileName is null when the
\* given fileName is the empty string (or absent).
C13_CreatePostFresh ==
    [][postCurrentId' # postCurrentId =>
       /\ \A title \in TitleArgs, fileName \in FileNameArgs, userId \in AuthorIdArgs :
             (\/ MemCreatePost(title, "", fileName, userId)
              \/ DbCreatePost(title, "", fileName, userId))
             => PostAdded(title, "",
                          IF fileName = "" \/ fileName = NULL THEN NULL ELSE fileName,
                          userId)
       /\ \A q \in BagToSet(reqs) :
             CpInsert(q) => PostAdded(q.title, q.description, q.fileName, q.userId)
      ]_vars

\* createPost was given the empty string as fileName and stored null
C13_Witness ==
    \E p \in DOMAIN posts \ DOMAIN SeedPosts :
       /\ posts[p].fileName = NULL
       /\ posts[p].title = ""
       /\ posts[p].likes = 0 /\ posts[p].comments = 0

\* C19: every post that POST /api/posts has answered 201 for is stored with a
\* title that is not the empty string.
C19_StoredTitleNonEmpty ==
    \A q \in BagToSet(reqs) :
       (q.pc = "done" /\ q.kind = "post" /\ q.status = 201)
       => /\ q.body[1].title # ""
          /\ posts[q.body[1].id].title # ""

Blank(content) == \A i \in 1..Len(content) : content[i] = " "

\* trimmed is content without its leading and trailing spaces
TrimmedOf(trimmed, content) ==
    /\ trimmed # <<>>
    /\ Head(trimmed) # " " /\ trimmed[Len(trimmed)] # " "
    /\ \E a \in 0..Len(content) :
          /\ a + Len(trimmed) <= Len(content)
          /\ SubSeq(content, a + 1, a + Len(trimmed)) = trimmed
          /\ Blank(SubSeq(content, 1, a))
          /\ Blank(SubSeq(content, a + Len(trimmed) + 1, Len(content)))

C21_SameStoreContract ==
    [][userCurrentId' # userCurrentId =>
       \A username \in Usernames, role \in Roles :
          LET mem == MemCreateUserOp(users, userCurrentId, username, "New User", role)
              db == DbCreateUserOp(users, userCurrentId, username, "New User", role)
          IN (\/ MemCreateUser(username, "New User", role)
              \/ DbCreateUser(username, "New User", role))
             => /\ mem.threw = db.threw
                /\ mem.user = db.user
                /\ mem.users = db.users
      ]_vars

\* the requests that have been answered
Answered == [q \in {x \in BagToSet(reqs) : x.pc = "done"} |-> reqs[q]]

\* the requests whose next statement waits for another request
Waiting ==
    {q \in BagToSet(InFlight) :
        q.pc \in {"lp_dec", "lp_inc", "cm_update"} /\ RowLocked(q.postId)}

\* once every request has arrived, all of them get answered
AllAnswered == <>[]Quiescent

\* a request is answered at most once: an answer stays as it is until the
\* next arrival clears it, and a step answers at most one request
AnsweredOnce ==
    [][IF calls' # calls
       THEN /\ InFlight \sqsubseteq reqs'
            /\ BagCardinality(reqs') = BagCardinality(InFlight) + 1
       ELSE /\ Answered \sqsubseteq reqs'
            /\ BagCardinality(reqs') = BagCardinality(reqs)
            /\ BagCardinality(InFlight') >= BagCardinality(InFlight) - 1
      ]_vars

\* C22 as stated: every like and comment request is eventually answered,
\* exactly once, and no request ever waits on another request.
C22_AnsweredNeverWaiting ==
    /\ AllAnswered
    /\ AnsweredOnce
    /\ [](Waiting = {})

\* C22 amended: every like and comment request is eventually answered,
\* exactly once; a request waits on another only at its UPDATE of a post row
\* that an open createComment transaction of another request has locked, and
\* that transaction is at its commit.
C22_AnsweredOnce ==
    /\ AllAnswered
    /\ AnsweredOnce
    /\ [](\A q \in Waiting :
            \E h \in BagToSet(InFlight) :
               h # q /\ h.kind = "comment" /\ h.pc = "cm_commit"
               /\ h.postId = q.postId)

\* a like request and a comment request on the same post have both been
\* answered with success, the like after the comment's commit
C22_Witness ==
    /\ Quiescent
    /\ \E a, b \in BagToSet(reqs) :
          /\ a.kind = "like" /\ a.status = 200
          /\ b.kind = "comment" /\ b.status = 201
          /\ a.body[1].post.comments = SeedComments1 + 1

\* C23: the like row write of a toggle leaves the membership of
\* (postId, userId) at the complement of the membership the toggle read, and
\* the 200 answer of the request carries that complement as hasLiked and the
\* counter value the toggle stored as post.likes.
C23_HasLikedIsToggleResult ==
    [][calls' = calls =>
       \A q \in BagToSet(reqs) :
          /\ (LpDelete(q) \/ (LpInsert(q) /\ postLikes' # postLikes))
             => DbHasUserLikedPost(postLikes', q.postId, q.userId) = ~q.hasLiked
          /\ LpUpdate(q)
             => \A x \in Arrived :
                   /\ x.status = 200
                   /\ x.body[1].hasLiked = ~q.hasLiked
                   /\ x.body[1].post.likes = posts'[q.postId].likes
      ]_vars

\* the step is part of likePost(p, u), called directly or by a request
LikePostStep(p, u) ==
    \/ MemLikePost(p, u)
    \/ \E q \in BagToSet(reqs) :
          /\ q.kind = "like" /\ q.postId = p /\ q.userId = u
          /\ LpSelect(q) \/ LpHas(q) \/ LpDelete(q) \/ LpInsert(q) \/ LpUpdate(q)

\* the step is part of createComment on post p
CreateCommentStep(p) ==
    \/ \E u \in AuthorIdArgs : MemCreateComment(<<"o", "k">>, p, u)
    \/ \E q \in BagToSet(reqs) :
          /\ q.kind = "comment" /\ q.postId = p
          /\ CmTxInsert(q) \/ CmTxUpdate(q) \/ CmCommit(q)

\* no post appears or disappears and no post changes a field other than its
\* two counters; no user changes
PostsKeepFields ==
    /\ users' = users
    /\ DOMAIN posts' = DOMAIN posts
    /\ \A p \in DOMAIN posts :
          /\ posts'[p].id = posts[p].id
          /\ posts'[p].title = posts[p].title
          /\ posts'[p].description = posts[p].description
          /\ posts'[p].fileName = posts[p].fileName
          /\ posts'[p].userId = posts[p].userId
          /\ posts'[p].createdAt = posts[p].createdAt

\* C24: every step of likePost(p, u) changes at most p's likes counter and
\* the like row (p, u); every step of createComment on p changes at most p's
\* comments counter and adds at most one comment; ids, titles, descriptions,
\* file names, authors and creation times of all posts, all other counters
\* and all users stay as they are.
C24_OnlyTargetCounter ==
    [][/\ PostsKeepFields
       /\ \A p \in PostIdArgs, u \in UserIdArgs :
             LikePostStep(p, u)
             => /\ comments' = comments
                /\ \A o \in DOMAIN posts :
                      /\ posts'[o].comments = posts[o].comments
                      /\ o # p => posts'[o].likes = posts[o].likes
                /\ \A row \in BagToSet(postLikes) \cup BagToSet(postLikes') :
                      row # [postId |-> p, userId |-> u]
                      => CopiesIn(row, postLikes') = CopiesIn(row, postLikes)
                /\ \A key \in DOMAIN postLikesMap \cup DOMAIN postLikesMap' :
                      key # LikeKey(p, u)
                      => (key \in DOMAIN postLikesMap' <=> key \in DOMAIN postLikesMap)
       /\ \A p \in PostIdArgs :
             CreateCommentStep(p)
             => /\ postLikes' = postLikes /\ postLikesMap' = postLikesMap
                /\ \A o \in DOMAIN posts :
                      /\ posts'[o].likes = posts[o].likes
                      /\ o # p => posts'[o].comments = posts[o].comments
                /\ DOMAIN comments \subseteq DOMAIN comments'
                /\ Cardinality(DOMAIN comments' \ DOMAIN comments) <= 1
                /\ \A c \in DOMAIN comments : comments'[c] = comments[c]
      ]_vars

\* a comment on post 1 was committed between a toggle's read of the post and
\* its counter update, and the post holds the comment's increment
C24_Witness ==
    \E q \in BagToSet(reqs) :
       /\ q.kind = "like" /\ q.pc \in {"lp_inc", "lp_dec"}
       /\ q.postResult[1].comments = SeedComments1
       /\ posts[q.postId].comments = SeedComments1 + 1

\* C25: in MemStorage every post's likes counter minus the number of its
\* like rows stays at the counter's initial value (24, 42, or 0 for a post
\* from createPost), and every unlike finds likes >= 1 and stores likes - 1:
\* the clamp at 0 changes no result.
C25_MemLikesOffsetKept ==
    /\ [](impl = "mem" =>
            \A p \in DOMAIN posts :
               posts[p].likes - Cardinality(MemLikers(p)) = InitLikes(p))
    /\ [][\A id \in PostIdArgs, userId \in UserIdArgs :
             (/\ MemLikePost(id, userId)
              /\ id \in DOMAIN posts
              /\ MemHasUserLikedPost(postLikesMap, id, userId))
             => /\ posts[id].likes >= 1
                /\ posts'[id].likes = posts[id].likes - 1
                /\ ~MemHasUserLikedPost(postLikesMap', id, userId)
         ]_vars

\* a post from createPost holds one like row with likes = 1, next to a seeded
\* post liked once
C25_Witness ==
    /\ impl = "mem"
    /\ 3 \in DOMAIN posts
    /\ posts[3].likes = 1 /\ Cardinality(MemLikers(3)) = 1
    /\ posts[1].likes = SeedLikes1 + 1

\* the numbers a bucket may print
BucketRange(unit) ==
    IF unit = "second" THEN 0..59
    ELSE IF unit = "minute" THEN 1..59
    ELSE IF unit = "hour" THEN 1..23
    ELSE IF unit = "day" THEN 1..29
    ELSE {n \in Nat : n >= 1}

\* C26: for every post of a listing aged d >= 0 seconds, the number N that
\* getTimeAgo prints lies in the range of its bucket: 0..59 seconds, 1..59
\* minutes, 1..23 hours, 1..29 days, and N >= 1 months.
C26_TimeAgoInBucketRange ==
    [][\A x \in GetAllPostsResults :
          \A i \in 1..Len(ListedPosts(x)) :
             LET post == ListedPosts(x)[i]
                 d == (now' - post.createdAt) \div TicksPerSecond
                 parts == TimeAgoParts(now', post.createdAt)
             IN d >= 0 =>
                   /\ parts.n \in BucketRange(parts.unit)
                   /\ post.timeAgo = Ago(parts.n, parts.unit)
                         \/ (parts.unit = "second"
                             /\ post.timeAgo = ToString(parts.n) \o " seconds ago")
      ]_vars

\* one listing holds a post aged 29 days next to one aged a month
C26_Witness ==
    \E x \in BagToSet(reqs) :
       /\ x.pc = "done" /\ x.kind \in {"getAllPosts", "feed"}
       /\ {"29 days ago", "1 month ago"}
             \subseteq {ListedPosts(x)[i].timeAgo : i \in 1..Len(ListedPosts(x))}

\* C27: no author object in an answer of GET /api/posts carries a password
\* field, whoever the viewer is.
C27_NoPasswordInFeed ==
    \A x \in BagToSet(reqs) :
       (x.kind = "feed" /\ x.pc = "done" /\ x.status = 200)
       => \A i \in 1..Len(FeedEntries(x)) :
             "password" \notin DOMAIN FeedEntries(x)[i].post.author

\* C28: a POST /api/posts request that is answered 400 or 401 creates no
\* post and leaves no file in the uploads directory.
C28_RejectedPostLeavesNothing ==
    [][calls' # calls =>
       \A title \in TitleInputs, description \in DescriptionInputs,
          file \in FileInputs, actor \in CommentActors :
          (/\ PostStart(title, description, file, actor)
           /\ \E x \in Started : x.pc = "done" /\ x.status \in {400, 401})
          => /\ posts' = posts /\ postCurrentId' = postCurrentId
             /\ uploads' = uploads
      ]_vars

\* C29: for every post that POST /api/posts has created with an uploaded
\* file, the uploads directory holds a file named post.fileName.
C29_FileNameNamesStoredFile ==
    \A q \in BagToSet(reqs) :
       (/\ q.pc = "done" /\ q.kind = "post" /\ q.status = 201
        /\ q.body[1].fileName # NULL)
       => q.body[1].fileName \in uploads

\* C30: when fetch resolves, the dialog shows the success message and closes
\* only if the server answered 201; on an error status it shows the failure
\* message and stays open; in both cases isSubmitting is false afterwards.
C30_SuccessOnlyWhenCreated ==
    [][\A x \in BagToSet(reqs) :
          DialogReceive(x)
          => /\ ~dialog'.isSubmitting
             /\ (dialog'.toast = SuccessToast \/ ~dialog'.open) => x.status = 201
             /\ x.status \in {400, 401, 500} => dialog'.toast = FailureToast
      ]_vars

====
